---------------------------- MODULE Spec2Model ----------------------------
(***************************************************************************)
(* Model of the AutoDifferentiation expression engines:                    *)
(*   singleVarDiff (src/src/SingleVarDiff.h) and                           *)
(*   multiVarDiff  (src/src/MultiVarDiff.h), with the driver src/main.cpp. *)
(*                                                                         *)
(* An expression is a record [kind, ...]; the C++ type of an expression    *)
(* (the template arguments) is the shape of the record.  `float` is        *)
(* modelled as IEEE-754 binary32 with round-to-nearest-even.               *)
(***************************************************************************)
EXTENDS Integers, Sequences, FiniteSets, TLC

VARIABLES
    ns,        \* namespace the client uses: "singleVarDiff" or "multiVarDiff"
    f,         \* an expression object held by the client
    g,         \* a second expression object held by the client
    last,      \* record of the last operation applied and of its result
    steps,     \* number of operations applied so far
    mem,       \* multiVarDiff::Variable objects by address (lifetime model)
    born,      \* number of Variable creations so far
    pc,        \* position in main()
    env        \* locals of main()

vars == <<ns, f, g, last, steps, mem, born, pc, env>>

-----------------------------------------------------------------------------
(***************************************************************************)
(* float: IEEE-754 binary32.  A finite value is (-1)^s * m * 2^e with      *)
(* m < 2^24; it is normal when m >= 2^23 and -149 <= e <= 104, subnormal   *)
(* when m < 2^23 and e = -149, and zero when m = 0 (then e = 0).           *)
(***************************************************************************)
TwoP23 == 2^23
TwoP24 == 2^24
EMin == 0 - 149
EMax == 127 - 23

FFin(s, m, e) == [c |-> "fin", s |-> s, m |-> m, e |-> e]
FZero(s) == FFin(s, 0, 0)
FInf(s) == [c |-> "inf", s |-> s, m |-> 0, e |-> 0]
FNaN == [c |-> "nan", s |-> 0, m |-> 0, e |-> 0]

IsNaN(a) == a.c = "nan"
IsInf(a) == a.c = "inf"
IsFinite(a) == a.c = "fin"
IsZero(a) == a.c = "fin" /\ a.m = 0

Xor(s, t) == IF s = t THEN 0 ELSE 1

RECURSIVE Bits(_)
Bits(n) == IF n = 0 THEN 0 ELSE 1 + Bits(n \div 2)

\* n >> k and n << k on non-negative n, total in k
Shr(n, k) == IF k >= 31 THEN 0 ELSE n \div (2^k)
Low(n, k) == IF k >= 31 THEN n ELSE n % (2^k)

\* Left-normalise an exact value m * 2^e (m > 0) towards a 24-bit mantissa.
RECURSIVE NormLeft(_, _)
NormLeft(m, e) ==
    IF m >= TwoP23 \/ e <= EMin THEN <<m, e>> ELSE NormLeft(2 * m, e - 1)

\* a finite non-zero result, or infinity on overflow
PackNormal(s, m, e) == IF e > EMax THEN FInf(s) ELSE FFin(s, m, e)

\* pack the rounded mantissa m (m <= 2^24) at exponent e
Pack(s, m, e) ==
    IF m = 0 THEN FZero(s)
    ELSE IF m = TwoP24 THEN PackNormal(s, TwoP23, e + 1)
    ELSE PackNormal(s, m, e)

\* round to nearest, ties to even: gd is the guard bit, sk the sticky bit
RoundUp(s, mq, e, gd, sk) ==
    Pack(s, IF gd = 1 /\ (sk = 1 \/ mq % 2 = 1) THEN mq + 1 ELSE mq, e)

Guard(m, k) == IF k = 0 THEN 0 ELSE Shr(m, k - 1) % 2
Sticky(m, k, st) ==
    IF k = 0 THEN st ELSE IF st = 1 \/ Low(m, k - 1) # 0 THEN 1 ELSE 0

\* drop the k low bits of m
RoundAt(s, m, e, st, k) ==
    RoundUp(s, Shr(m, k), e + k, Guard(m, k), Sticky(m, k, st))

\* bits to drop: kb to reach 24 bits, ke to reach the least exponent
ShiftCount(kb, ke) ==
    IF kb >= ke /\ kb >= 0 THEN kb ELSE IF ke >= 0 THEN ke ELSE 0

RoundShift(s, m, e, st) ==
    RoundAt(s, m, e, st, ShiftCount(Bits(m) - 24, EMin - e))

RoundNorm(s, n) == RoundShift(s, n[1], n[2], 0)

\* Round (m + st*epsilon) * 2^e to nearest, ties to even, and pack it.
\* Requires m < 2^30, and m >= 2^24 whenever st = 1.
RoundPack(s, m, e, st) ==
    IF m = 0 /\ st = 0 THEN FZero(s)
    ELSE IF st = 0 THEN RoundNorm(s, NormLeft(m, e))
    ELSE RoundShift(s, m, e, st)

\* static_cast<float>(n) for an int n, |n| < 2^30
FromInt(n) == IF n < 0 THEN RoundPack(1, 0 - n, 0, 0) ELSE RoundPack(0, n, 0, 0)

\* unary minus on float
FNeg(a) == IF IsNaN(a) THEN a ELSE [a EXCEPT !.s = 1 - a.s]

SignedM(a) == IF a.s = 0 THEN a.m ELSE 0 - a.m
LowBit(n, k) == IF Low(n, k) # 0 THEN 1 ELSE 0

\* the exact sum x * 2^e
AddExact(x, e) ==
    IF x = 0 THEN FZero(0)
    ELSE IF x < 0 THEN RoundPack(1, 0 - x, e, 0)
    ELSE RoundPack(0, x, e, 0)

\* a + b with b shifted right by k + 5 bits against a
AddSticky(a, b, k) ==
    IF a.s = b.s
        THEN RoundPack(a.s, (a.m * 32) + Shr(b.m, k), a.e - 5, LowBit(b.m, k))
    ELSE RoundPack(a.s, (a.m * 32) - Shr(b.m, k) - LowBit(b.m, k), a.e - 5,
                   LowBit(b.m, k))

\* a + b on finite non-zero a, b with a.e >= b.e
AddOrdered(a, b) ==
    IF a.e - b.e <= 5
        THEN AddExact((SignedM(a) * (2^(a.e - b.e))) + SignedM(b), b.e)
    ELSE AddSticky(a, b, a.e - b.e - 5)

\* operator+ on float
FAdd(a, b) ==
    IF IsNaN(a) \/ IsNaN(b) THEN FNaN
    ELSE IF IsInf(a) THEN (IF IsInf(b) /\ a.s # b.s THEN FNaN ELSE a)
    ELSE IF IsInf(b) THEN b
    ELSE IF IsZero(a) THEN
        (IF IsZero(b) THEN (IF a.s = 1 /\ b.s = 1 THEN FZero(1) ELSE FZero(0)) ELSE b)
    ELSE IF IsZero(b) THEN a
    ELSE IF a.e >= b.e THEN AddOrdered(a, b) ELSE AddOrdered(b, a)

\* operator- on float
FSub(a, b) == FAdd(a, FNeg(b))

\* the 48-bit product of two 24-bit mantissas as <<hi, lo>>, 24 bits each,
\* from their 12-bit limbs
MulJoin(p2, t1, l0) == <<p2 + (t1 \div 4096), ((t1 % 4096) * 4096) + l0>>
MulCarry(p2, p1, p0) == MulJoin(p2, p1 + (p0 \div 4096), p0 % 4096)
MulLimbs(x1, x0, y1, y0) == MulCarry(x1 * y1, (x1 * y0) + (x0 * y1), x0 * y0)
MulWide(x, y) == MulLimbs(x \div 4096, x % 4096, y \div 4096, y % 4096)

\* round hi * 2^24 + lo, keeping 29 bits: k low bits go to the sticky bit
MulPack(s, e, hi, lo, k) ==
    IF k < 0 THEN RoundPack(s, (hi * TwoP24) + lo, e, 0)
    ELSE RoundPack(s, (hi * (2^(24 - k))) + Shr(lo, k), e + k, LowBit(lo, k))

MulRound(s, e, p) == MulPack(s, e, p[1], p[2], Bits(p[1]) - 5)

\* operator* on float
FMul(a, b) ==
    IF IsNaN(a) \/ IsNaN(b) THEN FNaN
    ELSE IF IsInf(a) \/ IsInf(b) THEN
        (IF IsZero(a) \/ IsZero(b) THEN FNaN ELSE FInf(Xor(a.s, b.s)))
    ELSE IF IsZero(a) \/ IsZero(b) THEN FZero(Xor(a.s, b.s))
    ELSE MulRound(Xor(a.s, b.s), a.e + b.e, MulWide(a.m, b.m))

\* Left-normalise a non-zero mantissa to [2^23, 2^24) with no exponent floor.
RECURSIVE NormFull(_, _)
NormFull(m, e) == IF m >= TwoP23 THEN <<m, e>> ELSE NormFull(2 * m, e - 1)

\* n more quotient bits of r / d (r < d), given the quotient q so far
RECURSIVE LongDiv(_, _, _, _)
LongDiv(q, r, d, n) ==
    IF n = 0 THEN <<q, r>>
    ELSE LongDiv((2 * q) + ((2 * r) \div d), (2 * r) % d, d, n - 1)

DivPack(s, e, qr) == RoundPack(s, qr[1], e, IF qr[2] # 0 THEN 1 ELSE 0)

\* x / y on normalised <<mantissa, exponent>> pairs, to 26 quotient bits
DivRound(s, x, y) ==
    DivPack(s, x[2] - y[2] - 26, LongDiv(x[1] \div y[1], x[1] % y[1], y[1], 26))

\* operator/ on float
FDiv(a, b) ==
    IF IsNaN(a) \/ IsNaN(b) THEN FNaN
    ELSE IF IsInf(a) THEN (IF IsInf(b) THEN FNaN ELSE FInf(Xor(a.s, b.s)))
    ELSE IF IsInf(b) THEN FZero(Xor(a.s, b.s))
    ELSE IF IsZero(b) THEN (IF IsZero(a) THEN FNaN ELSE FInf(Xor(a.s, b.s)))
    ELSE IF IsZero(a) THEN FZero(Xor(a.s, b.s))
    ELSE DivRound(Xor(a.s, b.s), NormFull(a.m, a.e), NormFull(b.m, b.e))

\* operator== on float
FEq(a, b) ==
    /\ ~IsNaN(a)
    /\ ~IsNaN(b)
    /\ \/ a = b
       \/ IsZero(a) /\ IsZero(b)

\* the same float value: equal, or both NaN
FSame(a, b) == FEq(a, b) \/ (IsNaN(a) /\ IsNaN(b))

-----------------------------------------------------------------------------
(***************************************************************************)
(* Expressions.  Expression<ExprType::K, L, R> is the record               *)
(* [kind |-> K, lhs |-> L, rhs |-> R]; the leaves are below.               *)
(***************************************************************************)
Node(kind, lhs, rhs) == [kind |-> kind, lhs |-> lhs, rhs |-> rhs]

\* Expression<ExprType::Constant> holding value
Constant(value) == [kind |-> "Constant", value |-> value]

IsComposite(e) == e.kind \in {"Sum", "Difference", "Product", "Quotient"}

-----------------------------------------------------------------------------
\* namespace singleVarDiff
\* Expression<ExprType::Constant, Zero> and Expression<ExprType::Constant, One>
ZeroExpr == [kind |-> "Constant", tag |-> "Zero"]
OneExpr == [kind |-> "Constant", tag |-> "One"]

\* Expression<ExprType::Variable>
SvVariable == [kind |-> "Variable"]

\* the member `value` of the three Constant specialisations
SvValue(e) ==
    IF e = ZeroExpr THEN FromInt(0)
    ELSE IF e = OneExpr THEN FromInt(1)
    ELSE e.value

\* operator+(const Expression&, const Expression&)
SvPlus(lhs, rhs) ==
    IF lhs = ZeroExpr THEN rhs
    ELSE IF rhs = ZeroExpr THEN lhs
    ELSE IF lhs.kind = "Constant" /\ rhs.kind = "Constant"
        THEN Constant(FAdd(SvValue(lhs), SvValue(rhs)))
    ELSE Node("Sum", lhs, rhs)

\* operator-(const Expression&, const Expression&)
SvMinus(lhs, rhs) ==
    IF rhs = ZeroExpr THEN lhs
    ELSE IF lhs.kind = "Constant" /\ rhs.kind = "Constant"
        THEN Constant(FSub(SvValue(lhs), SvValue(rhs)))
    ELSE Node("Difference", lhs, rhs)

\* operator* without the test for a literal one on the left
SvTimesNoLeftOne(lhs, rhs) ==
    IF lhs = ZeroExpr \/ rhs = ZeroExpr THEN ZeroExpr
    ELSE IF rhs = OneExpr THEN lhs
    ELSE IF lhs.kind = "Constant" /\ rhs.kind = "Constant"
        THEN Constant(FMul(SvValue(lhs), SvValue(rhs)))
    ELSE Node("Product", lhs, rhs)

\* operator*(const Expression&, const Expression&)
SvTimes(lhs, rhs) ==
    IF lhs = ZeroExpr \/ rhs = ZeroExpr THEN ZeroExpr
    ELSE IF lhs = OneExpr THEN rhs
    ELSE IF rhs = OneExpr THEN lhs
    ELSE IF lhs.kind = "Constant" /\ rhs.kind = "Constant"
        THEN Constant(FMul(SvValue(lhs), SvValue(rhs)))
    ELSE Node("Product", lhs, rhs)

\* operator/ without the test for a literal one on the right
SvDivideNoRightOne(lhs, rhs) ==
    IF rhs = ZeroExpr THEN ZeroExpr
    ELSE IF lhs = ZeroExpr THEN ZeroExpr
    ELSE IF lhs.kind = "Constant" /\ rhs.kind = "Constant"
        THEN Constant(FDiv(SvValue(lhs), SvValue(rhs)))
    ELSE Node("Quotient", lhs, rhs)

\* operator/(const Expression&, const Expression&)
SvDivide(lhs, rhs) ==
    IF rhs = ZeroExpr THEN ZeroExpr
    ELSE IF lhs = ZeroExpr THEN ZeroExpr
    ELSE IF rhs = OneExpr THEN lhs
    ELSE IF lhs.kind = "Constant" /\ rhs.kind = "Constant"
        THEN Constant(FDiv(SvValue(lhs), SvValue(rhs)))
    ELSE Node("Quotient", lhs, rhs)

\* the global operators with floats: Expression op float
SvPlusFloat(lhs, c) == SvPlus(lhs, Constant(c))
SvMinusFloat(lhs, c) == SvPlus(lhs, Constant(FNeg(c)))
SvTimesFloat(lhs, c) == SvTimes(lhs, Constant(c))
SvDivideFloat(lhs, c) == SvDivide(lhs, Constant(c))

\* the global operators with floats: float op Expression
SvFloatPlus(c, rhs) == SvPlus(Constant(c), rhs)
SvFloatMinus(c, rhs) == SvMinus(Constant(c), rhs)
SvFloatTimes(c, rhs) == SvTimes(Constant(c), rhs)
SvFloatDivide(c, rhs) == SvDivide(Constant(c), rhs)

RECURSIVE SvDx(_)
\* dx() with the product rule's sum turned into a difference
SvDxProductSign(e) ==
    CASE e.kind = "Constant" -> ZeroExpr
      [] e.kind = "Variable" -> OneExpr
      [] e.kind = "Sum" -> SvPlus(SvDx(e.lhs), SvDx(e.rhs))
      [] e.kind = "Difference" -> SvMinus(SvDx(e.lhs), SvDx(e.rhs))
      [] e.kind = "Product" ->
            SvMinus(SvTimes(SvDx(e.lhs), e.rhs), SvTimes(e.lhs, SvDx(e.rhs)))
      [] e.kind = "Quotient" ->
            SvDivide(SvMinus(SvTimes(SvDx(e.lhs), e.rhs),
                             SvTimes(e.lhs, SvDx(e.rhs))),
                     SvTimes(e.rhs, e.rhs))

\* Expression::dx()
SvDx(e) ==
    CASE e.kind = "Constant" -> ZeroExpr
      [] e.kind = "Variable" -> OneExpr
      [] e.kind = "Sum" -> SvPlus(SvDx(e.lhs), SvDx(e.rhs))
      [] e.kind = "Difference" -> SvMinus(SvDx(e.lhs), SvDx(e.rhs))
      [] e.kind = "Product" ->
            SvPlus(SvTimes(SvDx(e.lhs), e.rhs), SvTimes(e.lhs, SvDx(e.rhs)))
      [] e.kind = "Quotient" ->
            SvDivide(SvMinus(SvTimes(SvDx(e.lhs), e.rhs),
                             SvTimes(e.lhs, SvDx(e.rhs))),
                     SvTimes(e.rhs, e.rhs))

\* Expression::operator()(float x)
RECURSIVE SvEval(_, _)
SvEval(e, x) ==
    CASE e.kind = "Constant" -> SvValue(e)
      [] e.kind = "Variable" -> x
      [] e.kind = "Sum" -> FAdd(SvEval(e.lhs, x), SvEval(e.rhs, x))
      [] e.kind = "Difference" -> FSub(SvEval(e.lhs, x), SvEval(e.rhs, x))
      [] e.kind = "Product" -> FMul(SvEval(e.lhs, x), SvEval(e.rhs, x))
      [] e.kind = "Quotient" -> FDiv(SvEval(e.lhs, x), SvEval(e.rhs, x))

-----------------------------------------------------------------------------
\* namespace multiVarDiff
\* a copy of a Variable: what its member initAddress holds
MvVariable(initAddress) == [kind |-> "Variable", initAddress |-> initAddress]

\* struct EvalVariable; Variable::operator=(float)
EvalVariable(var, value) == [initAddress |-> var.initAddress, value |-> value]

\* operator+(const Expression&, const Expression&)
MvPlus(lhs, rhs) ==
    IF lhs.kind = "Constant" /\ rhs.kind = "Constant"
        THEN Constant(FAdd(lhs.value, rhs.value))
    ELSE Node("Sum", lhs, rhs)

\* operator-(const Expression&, const Expression&)
MvMinus(lhs, rhs) ==
    IF lhs.kind = "Constant" /\ rhs.kind = "Constant"
        THEN Constant(FSub(lhs.value, rhs.value))
    ELSE Node("Difference", lhs, rhs)

\* operator*(const Expression&, const Expression&)
MvTimes(lhs, rhs) ==
    IF lhs.kind = "Constant" /\ rhs.kind = "Constant"
        THEN Constant(FMul(lhs.value, rhs.value))
    ELSE Node("Product", lhs, rhs)

\* operator/(const Expression&, const Expression&)
MvDivide(lhs, rhs) ==
    IF lhs.kind = "Constant" /\ rhs.kind = "Constant"
        THEN Constant(FDiv(lhs.value, rhs.value))
    ELSE Node("Quotient", lhs, rhs)

\* the global operators with floats: Expression op float
MvPlusFloat(lhs, c) == Node("Sum", lhs, Constant(c))
MvMinusFloat(lhs, c) == Node("Difference", lhs, Constant(c))
MvTimesFloat(lhs, c) == Node("Product", lhs, Constant(c))
MvDivideFloat(lhs, c) == Node("Quotient", lhs, Constant(c))

\* the global operators with floats: float op Expression
MvFloatPlus(c, rhs) == Node("Sum", Constant(c), rhs)
MvFloatMinus(c, rhs) == Node("Difference", Constant(c), rhs)
MvFloatTimes(c, rhs) == Node("Product", Constant(c), rhs)
MvFloatDivide(c, rhs) == Node("Quotient", Constant(c), rhs)

\* Variable::dx(var)
MvDxVariable(e, var) ==
    Constant(IF var.initAddress = e.initAddress THEN FromInt(1) ELSE FromInt(0))

RECURSIVE MvDx(_, _)
\* dx(var) with the quotient rule's denominator rhs instead of rhs * rhs
MvDxQuotientDenominator(e, var) ==
    CASE e.kind = "Constant" -> Constant(FZero(0))
      [] e.kind = "Variable" -> MvDxVariable(e, var)
      [] e.kind = "Sum" -> MvPlus(MvDx(e.lhs, var), MvDx(e.rhs, var))
      [] e.kind = "Difference" -> MvMinus(MvDx(e.lhs, var), MvDx(e.rhs, var))
      [] e.kind = "Product" ->
            MvPlus(MvTimes(MvDx(e.lhs, var), e.rhs),
                   MvTimes(e.lhs, MvDx(e.rhs, var)))
      [] e.kind = "Quotient" ->
            MvDivide(MvMinus(MvTimes(MvDx(e.lhs, var), e.rhs),
                             MvTimes(e.lhs, MvDx(e.rhs, var))),
                     e.rhs)

\* Expression::dx(const Variable& var)
MvDx(e, var) ==
    CASE e.kind = "Constant" -> Constant(FZero(0))
      [] e.kind = "Variable" -> MvDxVariable(e, var)
      [] e.kind = "Sum" -> MvPlus(MvDx(e.lhs, var), MvDx(e.rhs, var))
      [] e.kind = "Difference" -> MvMinus(MvDx(e.lhs, var), MvDx(e.rhs, var))
      [] e.kind = "Product" ->
            MvPlus(MvTimes(MvDx(e.lhs, var), e.rhs),
                   MvTimes(e.lhs, MvDx(e.rhs, var)))
      [] e.kind = "Quotient" ->
            MvDivide(MvMinus(MvTimes(MvDx(e.lhs, var), e.rhs),
                             MvTimes(e.lhs, MvDx(e.rhs, var))),
                     MvTimes(e.rhs, e.rhs))

RECURSIVE MvEvalVariable(_, _)
\* the scan that prefers a match among the later arguments
MvEvalVariableLast(e, args) ==
    IF Len(args) = 1
        THEN (IF args[1].initAddress = e.initAddress
                THEN args[1].value ELSE FromInt(0))
    ELSE IF \E i \in 2..Len(args) : args[i].initAddress = e.initAddress
        THEN MvEvalVariable(e, Tail(args))
    ELSE IF args[1].initAddress = e.initAddress THEN args[1].value
    ELSE FromInt(0)

\* Variable::operator()(x, args...) and Variable::operator()(x):
\* args is the non-empty argument list, in order
MvEvalVariable(e, args) ==
    IF Len(args) = 1
        THEN (IF args[1].initAddress = e.initAddress
                THEN args[1].value ELSE FromInt(0))
    ELSE IF args[1].initAddress = e.initAddress THEN args[1].value
    ELSE MvEvalVariable(e, Tail(args))

\* Expression::operator()(args...)
RECURSIVE MvEval(_, _)
MvEval(e, args) ==
    CASE e.kind = "Constant" -> e.value
      [] e.kind = "Variable" -> MvEvalVariable(e, args)
      [] e.kind = "Sum" -> FAdd(MvEval(e.lhs, args), MvEval(e.rhs, args))
      [] e.kind = "Difference" -> FSub(MvEval(e.lhs, args), MvEval(e.rhs, args))
      [] e.kind = "Product" -> FMul(MvEval(e.lhs, args), MvEval(e.rhs, args))
      [] e.kind = "Quotient" -> FDiv(MvEval(e.lhs, args), MvEval(e.rhs, args))

-----------------------------------------------------------------------------
(***************************************************************************)
(* The client of either namespace: it holds two expression objects f and   *)
(* g, and applies the library's operations to them.                        *)
(***************************************************************************)
Single == "singleVarDiff"
Multi == "multiVarDiff"

BinOps == {"+", "-", "*", "/"}

\* bound of the model: the number of operations the client applies
MaxSteps == 3

\* the floats the client passes: as Constants and as evaluation arguments
FloatVals == {FromInt(0), FromInt(2)}

\* the floats the client combines with expressions
FloatArgs == {FromInt(2)}

\* the Variables the multiVarDiff client created, by address
VarAddrs == {1, 2}
MvVars == {MvVariable(a) : a \in VarAddrs}

\* the leaves the client can construct
Leaves(n) ==
    IF n = Single
        THEN {SvVariable, ZeroExpr, OneExpr} \cup {Constant(c) : c \in FloatVals}
    ELSE MvVars \cup {Constant(c) : c \in FloatVals}

\* lhs op rhs, as overload resolution picks the operator
Build(n, op, lhs, rhs) ==
    CASE op = "+" -> IF n = Single THEN SvPlus(lhs, rhs) ELSE MvPlus(lhs, rhs)
      [] op = "-" -> IF n = Single THEN SvMinus(lhs, rhs) ELSE MvMinus(lhs, rhs)
      [] op = "*" -> IF n = Single THEN SvTimes(lhs, rhs) ELSE MvTimes(lhs, rhs)
      [] op = "/" -> IF n = Single THEN SvDivide(lhs, rhs) ELSE MvDivide(lhs, rhs)

\* lhs op c for a float c
BuildExprFloat(n, op, lhs, c) ==
    CASE op = "+" -> IF n = Single THEN SvPlusFloat(lhs, c) ELSE MvPlusFloat(lhs, c)
      [] op = "-" -> IF n = Single THEN SvMinusFloat(lhs, c) ELSE MvMinusFloat(lhs, c)
      [] op = "*" -> IF n = Single THEN SvTimesFloat(lhs, c) ELSE MvTimesFloat(lhs, c)
      [] op = "/" -> IF n = Single THEN SvDivideFloat(lhs, c) ELSE MvDivideFloat(lhs, c)

\* c op rhs for a float c
BuildFloatExpr(n, op, c, rhs) ==
    CASE op = "+" -> IF n = Single THEN SvFloatPlus(c, rhs) ELSE MvFloatPlus(c, rhs)
      [] op = "-" -> IF n = Single THEN SvFloatMinus(c, rhs) ELSE MvFloatMinus(c, rhs)
      [] op = "*" -> IF n = Single THEN SvFloatTimes(c, rhs) ELSE MvFloatTimes(c, rhs)
      [] op = "/" -> IF n = Single THEN SvFloatDivide(c, rhs) ELSE MvFloatDivide(c, rhs)

\* e.dx() resp. e.dx(var)
Dx(n, e, var) == IF n = Single THEN SvDx(e) ELSE MvDx(e, var)

\* the targets of dx in namespace n (singleVarDiff has the one implicit variable)
DxTargets(n) == IF n = Single THEN {SvVariable} ELSE MvVars

\* the evaluation arguments the client passes: a float, resp. (x = a, y = b, ...)
EvalArgs(n) ==
    IF n = Single THEN FloatVals
    ELSE {[i \in VarAddrs |-> EvalVariable(MvVariable(i), v[i])] :
            v \in [VarAddrs -> FloatVals]}

\* e(args)
Eval(n, e, args) == IF n = Single THEN SvEval(e, args) ELSE MvEval(e, args)

NoOp == [op |-> "none"]

Init ==
    /\ ns \in {Single, Multi}
    /\ f \in Leaves(ns)
    /\ g = f
    /\ last = NoOp
    /\ steps = 0
    /\ mem = <<>> /\ born = 0 /\ pc = "client" /\ env = <<>>

\* T f = leaf;  the client constructs a leaf
Construct(leaf) ==
    /\ steps < MaxSteps
    /\ f' = leaf
    /\ last' = [op |-> "construct", res |-> leaf]
    /\ steps' = steps + 1
    /\ UNCHANGED <<ns, g, mem, born, pc, env>>

\* auto g = f;  the client keeps a copy of f
Keep ==
    /\ steps < MaxSteps
    /\ g # f
    /\ g' = f
    /\ last' = [op |-> "copy", res |-> f]
    /\ steps' = steps + 1
    /\ UNCHANGED <<ns, f, mem, born, pc, env>>

\* f = f op g  resp.  f = g op f
Combine(op, swap) ==
    LET lhs == IF swap THEN g ELSE f
        rhs == IF swap THEN f ELSE g
        res == Build(ns, op, lhs, rhs)
    IN  /\ steps < MaxSteps
        /\ f' = res
        /\ last' = [op |-> op, form |-> "expr", lhs |-> lhs, rhs |-> rhs, res |-> res]
        /\ steps' = steps + 1
        /\ UNCHANGED <<ns, g, mem, born, pc, env>>

\* f = f op c  for a float c
CombineExprFloat(op, c) ==
    LET res == BuildExprFloat(ns, op, f, c)
    IN  /\ steps < MaxSteps
        /\ f' = res
        /\ last' = [op |-> op, form |-> "exprfloat", lhs |-> f, c |-> c, res |-> res]
        /\ steps' = steps + 1
        /\ UNCHANGED <<ns, g, mem, born, pc, env>>

\* f = c op f  for a float c
CombineFloatExpr(op, c) ==
    LET res == BuildFloatExpr(ns, op, c, f)
    IN  /\ steps < MaxSteps
        /\ f' = res
        /\ last' = [op |-> op, form |-> "floatexpr", c |-> c, rhs |-> f, res |-> res]
        /\ steps' = steps + 1
        /\ UNCHANGED <<ns, g, mem, born, pc, env>>

\* f = f.dx(var)
Differentiate(var) ==
    LET res == Dx(ns, f, var)
    IN  /\ steps < MaxSteps
        /\ f' = res
        /\ last' = [op |-> "dx", arg |-> f, var |-> var, res |-> res]
        /\ steps' = steps + 1
        /\ UNCHANGED <<ns, g, mem, born, pc, env>>

Next ==
    \/ \E leaf \in Leaves(ns) : Construct(leaf)
    \/ Keep
    \/ \E op \in BinOps, swap \in BOOLEAN : Combine(op, swap)
    \/ \E op \in BinOps, c \in FloatArgs : CombineExprFloat(op, c)
    \/ \E op \in BinOps, c \in FloatArgs : CombineFloatExpr(op, c)
    \/ \E var \in DxTargets(ns) : Differentiate(var)

Spec == Init /\ [][Next]_vars

-----------------------------------------------------------------------------
(***************************************************************************)
(* Lifetime of multiVarDiff::Variable objects.  An object lives at an      *)
(* address; a default-constructed Variable stores its own address in       *)
(* initAddress, a copy-constructed one copies the member.  An address is   *)
(* free again once the object at it is destroyed.  `origin` is history:    *)
(* the number of the creation (not copy) a Variable stems from.            *)
(***************************************************************************)
NumAddr == 3
MaxBorn == 3

Addr == 1..NumAddr

NoObject == [live |-> FALSE]

\* the expression a live Variable object is: its member initAddress
AsExpr(obj) == MvVariable(obj.initAddress)

\* Variable v;  at address a: initAddress = this
DefaultConstructed(a, origin) ==
    [live |-> TRUE, initAddress |-> a, origin |-> origin]

\* Variable w = v;  the implicit copy constructor
CopyConstructed(obj) ==
    [live |-> TRUE, initAddress |-> obj.initAddress, origin |-> obj.origin]

Live(m) == {a \in DOMAIN m : m[a].live}

InitVar ==
    /\ ns = Multi
    /\ f = NoOp /\ g = NoOp /\ last = NoOp /\ steps = 0
    /\ mem = [a \in Addr |-> NoObject]
    /\ born = 0
    /\ pc = "client" /\ env = <<>>

NewVariable(a) ==
    /\ born < MaxBorn
    /\ ~mem[a].live
    /\ mem' = [mem EXCEPT ![a] = DefaultConstructed(a, born + 1)]
    /\ born' = born + 1
    /\ last' = NoOp
    /\ UNCHANGED <<ns, f, g, steps, pc, env>>

CopyVariable(src, a) ==
    /\ mem[src].live
    /\ ~mem[a].live
    /\ mem' = [mem EXCEPT ![a] = CopyConstructed(mem[src])]
    /\ last' = NoOp
    /\ UNCHANGED <<ns, f, g, steps, born, pc, env>>

DestroyVariable(a) ==
    /\ mem[a].live
    /\ mem' = [mem EXCEPT ![a] = NoObject]
    /\ last' = NoOp
    /\ UNCHANGED <<ns, f, g, steps, born, pc, env>>

\* v.dx(w) for the Variables at addresses v and w
DxVariable(v, w) ==
    /\ mem[v].live
    /\ mem[w].live
    /\ last' = [op |-> "dx", self |-> mem[v], var |-> mem[w],
                res |-> MvDx(AsExpr(mem[v]), AsExpr(mem[w]))]
    /\ UNCHANGED <<ns, f, g, steps, mem, born, pc, env>>

NextVar ==
    \/ \E a \in Addr : NewVariable(a)
    \/ \E src \in Addr, a \in Addr : CopyVariable(src, a)
    \/ \E a \in Addr : DestroyVariable(a)
    \/ \E v \in Addr, w \in Addr : DxVariable(v, w)

SpecVar == InitVar /\ [][NextVar]_vars

-----------------------------------------------------------------------------
(***************************************************************************)
(* Evaluation of a Variable:  v(w1 = c1, ..., wn = cn).  Each argument     *)
(* wi = ci is a call of Variable::operator=(float), which makes an         *)
(* EvalVariable of wi's initAddress and ci; env collects the arguments of  *)
(* the call in order.  The Variables are those of main(): x, y and z = x.  *)
(***************************************************************************)
\* bound of the model: the number of arguments of a call
MaxArgs == 3

\* Variable x; Variable y; Variable z = x;  at the addresses 1, 2 and 3
MainObjects ==
    [a \in Addr |->
        CASE a = 1 -> DefaultConstructed(1, 1)
          [] a = 2 -> DefaultConstructed(2, 2)
          [] a = 3 -> CopyConstructed(DefaultConstructed(1, 1))
          [] OTHER -> NoObject]

InitEval ==
    /\ ns = Multi
    /\ f = NoOp /\ g = NoOp /\ last = NoOp /\ steps = 0
    /\ mem = MainObjects
    /\ born = 2
    /\ pc = "client" /\ env = <<>>

\* w = c  for the Variable at address w: the next argument of the call
AssignVariable(w, c) ==
    /\ mem[w].live
    /\ Len(env) < MaxArgs
    /\ env' = Append(env, EvalVariable(AsExpr(mem[w]), c))
    /\ last' = [op |-> "assign", self |-> mem[w], c |-> c,
                res |-> EvalVariable(AsExpr(mem[w]), c)]
    /\ UNCHANGED <<ns, f, g, steps, mem, born, pc>>

\* v(args) for the Variable at address v and the arguments collected
EvaluateVariable(v) ==
    /\ mem[v].live
    /\ env # <<>>
    /\ last' = [op |-> "eval", self |-> mem[v], args |-> env,
                res |-> MvEval(AsExpr(mem[v]), env)]
    /\ env' = <<>>
    /\ UNCHANGED <<ns, f, g, steps, mem, born, pc>>

NextEval ==
    \/ \E w \in Addr, c \in FloatVals : AssignVariable(w, c)
    \/ \E v \in Addr : EvaluateVariable(v)

SpecEval == InitEval /\ [][NextEval]_vars

-----------------------------------------------------------------------------
(***************************************************************************)
(* main() of src/main.cpp.  The locals x, y, z are Variable objects at     *)
(* stack addresses the compiler picks.                                     *)
(***************************************************************************)
StackSlots == 4

Stack == 1..StackSlots

InitMain ==
    /\ ns = Multi
    /\ f = NoOp /\ g = NoOp /\ last = NoOp /\ steps = 0
    /\ mem = [a \in Stack |-> NoObject]
    /\ born = 0
    /\ pc = "x"
    /\ env = [out |-> <<>>]

\* multiVarDiff::Variable x;
MainX(a) ==
    /\ pc = "x"
    /\ ~mem[a].live
    /\ mem' = [mem EXCEPT ![a] = DefaultConstructed(a, born + 1)]
    /\ born' = born + 1
    /\ env' = env @@ [x |-> a]
    /\ pc' = "y"
    /\ UNCHANGED <<ns, f, g, last, steps>>

\* multiVarDiff::Variable y;
MainY(a) ==
    /\ pc = "y"
    /\ ~mem[a].live
    /\ mem' = [mem EXCEPT ![a] = DefaultConstructed(a, born + 1)]
    /\ born' = born + 1
    /\ env' = env @@ [y |-> a]
    /\ pc' = "z"
    /\ UNCHANGED <<ns, f, g, last, steps>>

\* multiVarDiff::Variable z = x;
MainZ(a) ==
    /\ pc = "z"
    /\ ~mem[a].live
    /\ mem' = [mem EXCEPT ![a] = CopyConstructed(mem[env.x])]
    /\ env' = env @@ [z |-> a]
    /\ pc' = "expression"
    /\ UNCHANGED <<ns, f, g, last, steps, born>>

\* x * z + 4 * y * y / (x + 5)
MainExpressionOf(x, y, z) ==
    MvPlus(MvTimes(x, z),
           MvDivide(MvTimes(MvFloatTimes(FromInt(4), y), y),
                    MvPlusFloat(x, FromInt(5))))

\* auto expression = x * z + 4 * y * y / (x + 5);
MainExpression ==
    /\ pc = "expression"
    /\ env' = env @@ [expression |->
                MainExpressionOf(AsExpr(mem[env.x]), AsExpr(mem[env.y]),
                                 AsExpr(mem[env.z]))]
    /\ pc' = "dExpr_dx"
    /\ UNCHANGED <<ns, f, g, last, steps, mem, born>>

\* auto dExpr_dx = expression.dx(x);
MainDx ==
    /\ pc = "dExpr_dx"
    /\ env' = env @@ [dExpr_dx |-> MvDx(env.expression, AsExpr(mem[env.x]))]
    /\ pc' = "dExpr_dy"
    /\ UNCHANGED <<ns, f, g, last, steps, mem, born>>

\* auto dExpr_dy = expression.dx(y);
MainDy ==
    /\ pc = "dExpr_dy"
    /\ env' = env @@ [dExpr_dy |-> MvDx(env.expression, AsExpr(mem[env.y]))]
    /\ pc' = "print_dx"
    /\ UNCHANGED <<ns, f, g, last, steps, mem, born>>

\* the argument list (x = 10, y = 200)
MainArgs ==
    <<EvalVariable(AsExpr(mem[env.x]), FromInt(10)),
      EvalVariable(AsExpr(mem[env.y]), FromInt(200))>>

\* std::cout << ... << dExpr_dx(x = 10, y = 200) << std::endl;
MainPrintDx ==
    /\ pc = "print_dx"
    /\ env' = [env EXCEPT !.out = Append(@, MvEval(env.dExpr_dx, MainArgs))]
    /\ pc' = "print_dy"
    /\ UNCHANGED <<ns, f, g, last, steps, mem, born>>

\* std::cout << ... << dExpr_dy(x = 10, y = 200) << std::endl;  return 0;
MainPrintDy ==
    /\ pc = "print_dy"
    /\ env' = [env EXCEPT !.out = Append(@, MvEval(env.dExpr_dy, MainArgs))]
    /\ pc' = "done"
    /\ UNCHANGED <<ns, f, g, last, steps, mem, born>>

NextMain ==
    \/ \E a \in Stack : MainX(a)
    \/ \E a \in Stack : MainY(a)
    \/ \E a \in Stack : MainZ(a)
    \/ MainExpression
    \/ MainDx
    \/ MainDy
    \/ MainPrintDx
    \/ MainPrintDy

SpecMain == InitMain /\ [][NextMain]_vars

-----------------------------------------------------------------------------
(***************************************************************************)
(* Properties                                                              *)
(***************************************************************************)
\* the member `value` of a Constant of namespace n
ValueOf(n, e) == IF n = Single THEN SvValue(e) ELSE e.value

\* a op b on float
FloatOp(op, a, b) ==
    CASE op = "+" -> FAdd(a, b)
      [] op = "-" -> FSub(a, b)
      [] op = "*" -> FMul(a, b)
      [] op = "/" -> FDiv(a, b)

\* the last operation was lhs op rhs on two expressions
LastIsBinary == last.op \in BinOps /\ last.form = "expr"

\* C1: in multiVarDiff, v.dx(w) is Constant 1 when w is v or a (transitive)
\* copy of v, and Constant 0 when v and w stem from separate creations, also
\* when the created instance of v is already destroyed, a copy of it lives on
\* and w was created afterwards.
C1_VariableIdentity ==
    last.op = "dx" =>
        last.res = Constant(IF last.self.origin = last.var.origin
                            THEN FromInt(1) ELSE FromInt(0))

\* C2: in both engines, a op b on two Constants (in singleVarDiff also the
\* literal zero and one, in either position) is a Constant leaf whose value is
\* value(a) op value(b): folding comes before identity elimination, so a / b
\* with b the literal zero is the numeric quotient, not the constant 0.
C2_ConstantFolding ==
    (LastIsBinary /\ last.lhs.kind = "Constant" /\ last.rhs.kind = "Constant") =>
        /\ last.res.kind = "Constant"
        /\ FSame(ValueOf(ns, last.res),
                 FloatOp(last.op, ValueOf(ns, last.lhs), ValueOf(ns, last.rhs)))

RECURSIVE NoConstantPair(_)
NoConstantPair(e) ==
    IsComposite(e) =>
        /\ ~(e.lhs.kind = "Constant" /\ e.rhs.kind = "Constant")
        /\ NoConstantPair(e.lhs)
        /\ NoConstantPair(e.rhs)

\* C3: in both engines, no expression built by the combinators (with
\* expressions or floats, either order) and dx contains a Sum, Difference,
\* Product or Quotient node whose two children are both Constant.
C3_NoConstantPair == NoConstantPair(f) /\ NoConstantPair(g)

\* the product rule on values: d(fg) against df * g + f * dg
RuleOnValues(vf, vg, vdf, vdg, vdfg) ==
    FSame(vdfg, FAdd(FMul(vdf, vg), FMul(vf, vdg)))

AllFinite(vf, vg, vdf, vdg) ==
    IsFinite(vf) /\ IsFinite(vg) /\ IsFinite(vdf) /\ IsFinite(vdg)

\* the product rule at every binding, for the expressions f, g, their
\* derivatives df, dg and the derivative dfg of what f * g built
RuleEverywhere(n, ef, eg, df, dg, dfg) ==
    \A args \in EvalArgs(n) :
        RuleOnValues(Eval(n, ef, args), Eval(n, eg, args), Eval(n, df, args),
                     Eval(n, dg, args), Eval(n, dfg, args))

\* the rule on values that are finite: d(fg) is then the same float, or NaN
\* where the sum of the two products is NaN
RuleIfFinite(vf, vg, vdf, vdg, vdfg) ==
    AllFinite(vf, vg, vdf, vdg) => RuleOnValues(vf, vg, vdf, vdg, vdfg)

\* the same, at the bindings at which f, g, df and dg are all finite
RuleWhereFinite(n, ef, eg, df, dg, dfg) ==
    \A args \in EvalArgs(n) :
        RuleIfFinite(Eval(n, ef, args), Eval(n, eg, args), Eval(n, df, args),
                     Eval(n, dg, args), Eval(n, dfg, args))

\* C4 (as claimed): in both engines, for all expressions f and g (Constants
\* and the literal zero and one included) and every variable,
\* (f*g).dx(v) evaluated at any binding equals
\* f.dx(v)(binding)*g(binding) + f(binding)*g.dx(v)(binding).
C4_ProductRule ==
    LastIsBinary /\ last.op = "*" =>
        \A var \in DxTargets(ns) :
            RuleEverywhere(ns, last.lhs, last.rhs, Dx(ns, last.lhs, var),
                           Dx(ns, last.rhs, var), Dx(ns, last.res, var))

\* C4 (amended): the product rule holds at every binding at which f, g,
\* f.dx(v) and g.dx(v) all evaluate to finite floats (the two sides are then
\* equal floats, or both NaN).
C4_ProductRuleFinite ==
    LastIsBinary /\ last.op = "*" =>
        \A var \in DxTargets(ns) :
            RuleWhereFinite(ns, last.lhs, last.rhs, Dx(ns, last.lhs, var),
                            Dx(ns, last.rhs, var), Dx(ns, last.res, var))

\* a derivative that is finite and not zero at some binding
NonZeroSomewhere(n, e) ==
    \E args \in EvalArgs(n) : IsFinite(Eval(n, e, args)) /\ ~IsZero(Eval(n, e, args))

\* a Product node was built of a composite f and a g that both vary, and
\* its derivative is finite and not zero somewhere
C4_Witness ==
    /\ LastIsBinary
    /\ last.op = "*"
    /\ last.res.kind = "Product"
    /\ IsComposite(last.lhs)
    /\ \E var \in DxTargets(ns) :
        /\ NonZeroSomewhere(ns, Dx(ns, last.lhs, var))
        /\ NonZeroSomewhere(ns, Dx(ns, last.rhs, var))
        /\ NonZeroSomewhere(ns, Dx(ns, last.res, var))

\* C5: in singleVarDiff, with 0 and 1 the literal zero and one constants:
\* x+0, 0+x, x-0, x*1, 1*x and x/1 return x itself, and x*0, 0*x and 0/x
\* return the literal zero constant.
C5_IdentityElimination ==
    (ns = Single /\ LastIsBinary) =>
        /\ (last.op = "+" /\ last.rhs = ZeroExpr) => last.res = last.lhs
        /\ (last.op = "+" /\ last.lhs = ZeroExpr) => last.res = last.rhs
        /\ (last.op = "-" /\ last.rhs = ZeroExpr) => last.res = last.lhs
        /\ (last.op = "*" /\ last.rhs = OneExpr) => last.res = last.lhs
        /\ (last.op = "*" /\ last.lhs = OneExpr) => last.res = last.rhs
        /\ (last.op = "/" /\ last.rhs = OneExpr) => last.res = last.lhs
        /\ (last.op = "*" /\ last.rhs = ZeroExpr) => last.res = ZeroExpr
        /\ (last.op = "*" /\ last.lhs = ZeroExpr) => last.res = ZeroExpr
        /\ (last.op = "/" /\ last.lhs = ZeroExpr) => last.res = ZeroExpr

\* x / 1 was built for a composite x and returned x
C5_Witness ==
    /\ ns = Single
    /\ LastIsBinary
    /\ last.op = "/"
    /\ last.rhs = OneExpr
    /\ IsComposite(last.lhs)
    /\ last.res = last.lhs

\* the indices of the bindings in args that carry the identity of leaf
Matching(leaf, args) ==
    {i \in DOMAIN args : args[i].initAddress = leaf.initAddress}

Least(S) == CHOOSE i \in S : \A j \in S : i <= j

\* C6: in multiVarDiff, a Variable leaf evaluated under a non-empty ordered
\* binding list returns the value of the first binding whose identity equals
\* the leaf's, and 0 when no binding has that identity.
C6_FirstBinding ==
    last.op = "eval" =>
        last.res = IF Matching(last.self, last.args) = {} THEN FromInt(0)
                   ELSE last.args[Least(Matching(last.self, last.args))].value

\* a Variable was evaluated under a binding of another identity followed by
\* two bindings of its own identity that differ: the first of the two won
C6_Witness ==
    /\ last.op = "eval"
    /\ Len(last.args) >= 3
    /\ Matching(last.self, last.args) = {2, 3}
    /\ last.args[2].value # last.args[3].value
    /\ last.res = last.args[2].value

\* C7: in both engines, e op c and c op e for a float c build exactly what
\* e op Constant(c) and Constant(c) op e build with the builder of that
\* same operator.
C7_FloatPromotion ==
    /\ (last.op \in BinOps /\ last.form = "exprfloat") =>
            last.res = Build(ns, last.op, last.lhs, Constant(last.c))
    /\ (last.op \in BinOps /\ last.form = "floatexpr") =>
            last.res = Build(ns, last.op, Constant(last.c), last.rhs)

\* |a| in hundredths, truncated, for a finite a with -30 <= a.e <= 0
Hundredths(a) == (a.m * 100) \div (2^(0 - a.e))

\* a is within one hundredth of h hundredths
Near(a, h) ==
    /\ IsFinite(a)
    /\ a.e <= 0
    /\ a.e >= 0 - 30
    /\ (IF a.s = 1 THEN 0 - Hundredths(a) ELSE Hundredths(a)) \in (h - 1)..(h + 1)

\* C8 (as claimed): main's dExpr_dx(x = 10, y = 200) is 20 - 320000/225,
\* approximately -1402.22.
C8_MainDxClaimed == pc = "done" => Near(env.out[1], 0 - 140222)

\* C8 (amended): main's dExpr_dx(x = 10, y = 200) is
\* 2*10 + (0 - 4*200*200*1)/(10+5)^2 = 20 - 160000/225, approximately -691.11.
C8_MainDx == pc = "done" => Near(env.out[1], 0 - 69111)

\* main has printed both derivatives
C8_Witness == pc = "done" /\ Len(env.out) = 2 /\ IsFinite(env.out[1])

OpOf(kind) ==
    CASE kind = "Sum" -> "+"
      [] kind = "Difference" -> "-"
      [] kind = "Product" -> "*"
      [] kind = "Quotient" -> "/"

\* the tree rebuilt bottom-up with the builder of each node's kind
RECURSIVE Rebuild(_, _)
Rebuild(n, e) ==
    IF IsComposite(e)
        THEN Build(n, OpOf(e.kind), Rebuild(n, e.lhs), Rebuild(n, e.rhs))
    ELSE e

\* C9: in both engines, rebuilding any built tree bottom-up with the
\* Expression-with-Expression builder of each node's kind yields the same tree.
C9_Idempotent == Rebuild(ns, f) = f /\ Rebuild(ns, g) = g

RECURSIVE LiteralsPlaced(_)
LiteralsPlaced(e) ==
    IsComposite(e) =>
        /\ e.kind = "Sum" => e.lhs # ZeroExpr /\ e.rhs # ZeroExpr
        /\ e.kind = "Difference" => e.rhs # ZeroExpr
        /\ e.kind = "Product" =>
            e.lhs \notin {ZeroExpr, OneExpr} /\ e.rhs \notin {ZeroExpr, OneExpr}
        /\ e.kind = "Quotient" =>
            e.lhs # ZeroExpr /\ e.rhs \notin {ZeroExpr, OneExpr}
        /\ LiteralsPlaced(e.lhs)
        /\ LiteralsPlaced(e.rhs)

\* C10: in singleVarDiff, in every expression built from the leaves by the
\* combinators and dx(), the literal zero is never a child of a Sum, Product
\* or Quotient nor the right child of a Difference, and the literal one is
\* never a child of a Product nor the right child of a Quotient.
C10_LiteralPlacement == ns = Single => LiteralsPlaced(f) /\ LiteralsPlaced(g)

\* 0 - x was built: the literal zero as the left child of a Difference
C10_Witness ==
    /\ ns = Single
    /\ LastIsBinary
    /\ last.op = "-"
    /\ f.kind = "Difference"
    /\ f.lhs = ZeroExpr
    /\ IsComposite(f.rhs)
=============================================================================
